---- MODULE Spec2Model ----
(***************************************************************************)
(* A model of the ReACT trading agent of src/react: the Portfolio ledger   *)
(* (data_models/portfolio.py) and the OBSERVE -> THINK -> DECIDE -> ACT    *)
(* state machine that TradingAgentGraph (agent/agent_graph.py) compiles    *)
(* and that run() drives once per episode.                                 *)
(*                                                                         *)
(* Python floats are modelled as exact numbers: quantities, prices and     *)
(* cash are integers, avg_price (the one quotient the code computes) is a  *)
(* reduced fraction.  Rounding of IEEE doubles is outside the model.       *)
(*                                                                         *)
(* Not modelled: state["messages"] (a log nothing reads back),             *)
(* state["observations"] (its prices are state["prices"]), the prompt      *)
(* texts, and the step limit of the graph library, which is not part of    *)
(* the repository.                                                         *)
(***************************************************************************)
EXTENDS Integers, Sequences, FiniteSets, TLC

VARIABLES
    pc,                     \* position of the run: which node (or loop line) executes next
    exc,                    \* the exception that ended the run ("" while none)
    max_think_steps,        \* TradingAgentGraph.max_think_steps
    max_episodes,           \* run()'s max_episodes argument
    episode,                \* episodes started by run()'s for loop
    initial_day,            \* the caller's initial_state["day"]
    initial_actions,        \* the caller's initial_state["actions"]
    day,                    \* state["day"]
    trajectory,             \* state["trajectory"]
    actions,                \* state["actions"]
    prices,                 \* state["prices"]
    current_llm_response,   \* state["_current_llm_response"]
    final_action,           \* state["_final_action"]
    llm_raised,             \* the last _invoke_llm call took its except branch
    llm_out,                \* what open_router.call did last: it raised, or the
                            \* text it returned
    parsed,                 \* what _parse_llm_response did with that text
    cash,                   \* Portfolio.cash
    positions,              \* Portfolio.positions
    last_call,              \* the latest direct Portfolio call: the ledger it
                            \* found, its arguments and its result
    prev_call,              \* the direct call before it
    ncalls                  \* direct Portfolio calls made so far (bounds PSpec)

vars == <<pc, exc, max_think_steps, max_episodes, episode, initial_day,
          initial_actions, day, trajectory, actions, prices,
          current_llm_response, final_action, llm_raised, llm_out, parsed,
          cash, positions, last_call, prev_call, ncalls>>

agent_vars == <<exc, max_think_steps, max_episodes, episode, initial_day,
                initial_actions, day, trajectory, actions, prices,
                current_llm_response, final_action, llm_raised, llm_out, parsed>>

(***************************************************************************)
(* Bounds of the exploration.                                              *)
(***************************************************************************)
MaxThinkSteps == 2
MaxEpisodes == 2
MaxQty == 2
MaxPrice == 2
MaxCash == 2
MaxCalls == 2

(***************************************************************************)
(* Strings: str.upper() and str.lower() on the vocabulary the model uses.  *)
(***************************************************************************)
Upper(s) ==
    CASE s = "aapl"    -> "AAPL"
      [] s = "think"   -> "THINK"
      [] s = "Think"   -> "THINK"
      [] s = "observe" -> "OBSERVE"
      [] s = "done"    -> "DONE"
      [] s = "buy"     -> "BUY"
      [] s = "sell"    -> "SELL"
      [] s = "hold"    -> "HOLD"
      [] OTHER         -> s

Lower(s) ==
    CASE s = "AAPL"    -> "aapl"
      [] s = "MSFT"    -> "msft"
      [] s = "Think"   -> "think"
      [] s = "BUY"     -> "buy"
      [] OTHER         -> s

(***************************************************************************)
(* Optional values (None or a number).                                     *)
(***************************************************************************)
None == [some |-> FALSE, v |-> 0]
Some(x) == [some |-> TRUE, v |-> x]

(***************************************************************************)
(* Fractions n/d, kept reduced with d > 0.                                 *)
(***************************************************************************)
Abs(x) == IF x < 0 THEN -x ELSE x

RECURSIVE Gcd(_, _)
Gcd(a, b) == IF b = 0 THEN a ELSE Gcd(b, a % b)

Frac(n, d) ==
    LET g == Gcd(Abs(n), Abs(d))
        sgn == IF d < 0 THEN -1 ELSE 1
    IN  [n |-> sgn * (n \div g), d |-> sgn * (d \div g)]

FracEq(a, n, d) == a.n * d = n * a.d

(***************************************************************************)
(* Portfolio (data_models/portfolio.py).  positions maps each held key to  *)
(* its Position record.  A method is an operator from the ledger and the   *)
(* arguments to the result: ret is "True", "False" or the exception name.  *)
(***************************************************************************)
Position(symbol, quantity, avg_price) ==
    [symbol |-> symbol, quantity |-> quantity, avg_price |-> avg_price,
     current_price |-> None]

\* mutant: a position without current_price is valued at its avg_price
market_value_at_cost(pos) ==
    IF ~pos.current_price.some
    THEN (pos.quantity * pos.avg_price.n) \div pos.avg_price.d
    ELSE pos.quantity * pos.current_price.v

market_value(pos) ==
    IF ~pos.current_price.some THEN 0 ELSE pos.quantity * pos.current_price.v

\* mutant: the key is the symbol as given, not upper-cased
add_position_raw_key(ps, symbol, quantity, avg_price) ==
    [s \in DOMAIN ps \cup {symbol} |->
        IF s = symbol THEN Position(symbol, quantity, Frac(avg_price, 1)) ELSE ps[s]]

add_position(ps, symbol, quantity, avg_price) ==
    LET key == Upper(symbol)
    IN  [s \in DOMAIN ps \cup {key} |->
            IF s = key THEN Position(key, quantity, Frac(avg_price, 1)) ELSE ps[s]]

\* mutant: the purchase goes through whatever the cash
buy_on_credit(c, ps, symbol, quantity, current_price) ==
    LET cost == quantity * current_price
    IN  IF symbol \in DOMAIN ps
        THEN LET pos == ps[symbol]
                 total_quantity == pos.quantity + quantity
                 total_cost_n == pos.quantity * pos.avg_price.n + cost * pos.avg_price.d
             IN  IF total_quantity = 0
                 THEN [ret |-> "ZeroDivisionError", cash |-> c - cost,
                       positions |-> [ps EXCEPT ![symbol].quantity = total_quantity]]
                 ELSE [ret |-> "True", cash |-> c - cost,
                       positions |-> [ps EXCEPT
                           ![symbol].quantity = total_quantity,
                           ![symbol].avg_price =
                               Frac(total_cost_n, pos.avg_price.d * total_quantity)]]
        ELSE [ret |-> "True", cash |-> c - cost,
              positions |-> add_position(ps, symbol, quantity, current_price)]

buy(c, ps, symbol, quantity, current_price) ==
    LET cost == quantity * current_price
    IN  IF cost > c
        THEN [ret |-> "False", cash |-> c, positions |-> ps]
        ELSE IF symbol \in DOMAIN ps
        THEN LET pos == ps[symbol]
                 total_quantity == pos.quantity + quantity
                 \* (pos.quantity * pos.avg_price) + cost, over pos.avg_price.d
                 total_cost_n == pos.quantity * pos.avg_price.n + cost * pos.avg_price.d
             IN  IF total_quantity = 0
                 THEN \* pos.quantity is assigned before the division raises
                      [ret |-> "ZeroDivisionError", cash |-> c - cost,
                       positions |-> [ps EXCEPT ![symbol].quantity = total_quantity]]
                 ELSE [ret |-> "True", cash |-> c - cost,
                       positions |-> [ps EXCEPT
                           ![symbol].quantity = total_quantity,
                           ![symbol].avg_price =
                               Frac(total_cost_n, pos.avg_price.d * total_quantity)]]
        ELSE [ret |-> "True", cash |-> c - cost,
              positions |-> add_position(ps, symbol, quantity, current_price)]

\* mutant: the position is looked up without the membership test
sell_not_held_raises(c, ps, symbol0, quantity, current_price) ==
    LET symbol == Upper(symbol0)
    IN  IF symbol \notin DOMAIN ps
        THEN [ret |-> "KeyError", cash |-> c, positions |-> ps]
        ELSE LET pos == ps[symbol]
                 sell_qty == IF quantity.some THEN quantity.v ELSE pos.quantity
             IN  IF sell_qty > pos.quantity
                 THEN [ret |-> "False", cash |-> c, positions |-> ps]
                 ELSE IF sell_qty = pos.quantity
                 THEN [ret |-> "True", cash |-> c + sell_qty * current_price,
                       positions |-> [s \in DOMAIN ps \ {symbol} |-> ps[s]]]
                 ELSE [ret |-> "True", cash |-> c + sell_qty * current_price,
                       positions |-> [ps EXCEPT
                           ![symbol].quantity = pos.quantity - sell_qty]]

\* mutant: selling all that is held is refused
sell_refuses_full_sale(c, ps, symbol0, quantity, current_price) ==
    LET symbol == Upper(symbol0)
    IN  IF symbol \notin DOMAIN ps
        THEN [ret |-> "False", cash |-> c, positions |-> ps]
        ELSE LET pos == ps[symbol]
                 sell_qty == IF quantity.some THEN quantity.v ELSE pos.quantity
             IN  IF sell_qty >= pos.quantity
                 THEN [ret |-> "False", cash |-> c, positions |-> ps]
                 ELSE [ret |-> "True", cash |-> c + sell_qty * current_price,
                       positions |-> [ps EXCEPT
                           ![symbol].quantity = pos.quantity - sell_qty]]

\* mutant: a position sold in full is kept with what is left of it
sell_keeps_position(c, ps, symbol0, quantity, current_price) ==
    LET symbol == Upper(symbol0)
    IN  IF symbol \notin DOMAIN ps
        THEN [ret |-> "False", cash |-> c, positions |-> ps]
        ELSE LET pos == ps[symbol]
                 sell_qty == IF quantity.some THEN quantity.v ELSE pos.quantity
             IN  IF sell_qty > pos.quantity
                 THEN [ret |-> "False", cash |-> c, positions |-> ps]
                 ELSE [ret |-> "True", cash |-> c + sell_qty * current_price,
                       positions |-> [ps EXCEPT
                           ![symbol].quantity = pos.quantity - sell_qty]]

sell(c, ps, symbol0, quantity, current_price) ==
    LET symbol == Upper(symbol0)
    IN  IF symbol \notin DOMAIN ps
        THEN [ret |-> "False", cash |-> c, positions |-> ps]
        ELSE LET pos == ps[symbol]
                 sell_qty == IF quantity.some THEN quantity.v ELSE pos.quantity
             IN  IF sell_qty > pos.quantity
                 THEN [ret |-> "False", cash |-> c, positions |-> ps]
                 ELSE LET proceeds == sell_qty * current_price
                      IN  IF sell_qty = pos.quantity
                          THEN [ret |-> "True", cash |-> c + proceeds,
                                positions |-> [s \in DOMAIN ps \ {symbol} |-> ps[s]]]
                          ELSE [ret |-> "True", cash |-> c + proceeds,
                                positions |-> [ps EXCEPT
                                    ![symbol].quantity = pos.quantity - sell_qty]]

\* mutant: a position the snapshot does not price loses its price
update_prices_clears_unpriced(ps, snapshot) ==
    [s \in DOMAIN ps |->
        IF s \in DOMAIN snapshot /\ snapshot[s].some
        THEN [ps[s] EXCEPT !.current_price = Some(snapshot[s].v)]
        ELSE [ps[s] EXCEPT !.current_price = None]]

\* mutant: a position the snapshot does not price is dropped
update_prices_drops_unpriced(ps, snapshot) ==
    [s \in {k \in DOMAIN ps : k \in DOMAIN snapshot /\ snapshot[k].some} |->
        [ps[s] EXCEPT !.current_price = Some(snapshot[s].v)]]

update_prices(ps, snapshot) ==
    [s \in DOMAIN ps |->
        IF s \in DOMAIN snapshot /\ snapshot[s].some
        THEN [ps[s] EXCEPT !.current_price = Some(snapshot[s].v)]
        ELSE ps[s]]

RECURSIVE SumMarketValue(_, _)
SumMarketValue(ps, keys) ==
    IF keys = {} THEN 0
    ELSE LET k == CHOOSE x \in keys : TRUE
         IN  market_value(ps[k]) + SumMarketValue(ps, keys \ {k})

total_market_value(ps) == SumMarketValue(ps, DOMAIN ps)

total_value(c, ps) == total_market_value(ps) + c

EmptyPositions == [s \in {} |-> Position("", 0, Frac(0, 1))]

\* update_prices({}): a snapshot that prices nothing
NoSnapshot == [s \in {} |-> None]

Call(op, symbol, quantity, price, ret, c, ps) ==
    [op |-> op, symbol |-> symbol, quantity |-> quantity, price |-> price, ret |-> ret,
     cash_before |-> c, positions_before |-> ps, snapshot |-> NoSnapshot]

NoCall == Call("none", "", None, 0, "", 0, EmptyPositions)

(***************************************************************************)
(* JSON values as json.loads returns them.  A field value is a string, a   *)
(* number, null, or absent from the object; a top-level value is an object *)
(* over the five keys the agent reads, or something that is no object.     *)
(***************************************************************************)
JAbsent == [t |-> "absent", s |-> "", n |-> 0]
JNull == [t |-> "null", s |-> "", n |-> 0]
JStr(x) == [t |-> "str", s |-> x, n |-> 0]
JNum(x) == [t |-> "num", s |-> "", n |-> x]

Obj(a, r, ta, sy, q) ==
    [t |-> "obj",
     f |-> [action |-> a, reasoning |-> r, trade_action |-> ta, symbol |-> sy,
            quantity |-> q]]

EmptyDict == Obj(JAbsent, JAbsent, JAbsent, JAbsent, JAbsent)
JList == [t |-> "list", f |-> EmptyDict.f]

\* dict.get(key, default)
Get(d, key, default) == IF d.f[key].t = "absent" THEN default ELSE d.f[key]

(***************************************************************************)
(* What open_router.call gives back: it raises, or returns a text.  A text *)
(* is kept as its form (empty; blank, i.e. white space only; exactly one   *)
(* JSON value, possibly with doubled braces; prose around one JSON value;  *)
(* no JSON at all; JSON nested deeper than the decoder's recursion limit)  *)
(* and the JSON value it carries.                                          *)
(***************************************************************************)
Raises == [raises |-> TRUE, form |-> "", val |-> JList]
Text(form, val) == [raises |-> FALSE, form |-> form, val |-> val]

\* before the first call
NoOutcome == [raises |-> FALSE, form |-> "none", val |-> JList]
NotParsed == [t |-> "none", f |-> EmptyDict.f]

\* an exception leaving _parse_llm_response
Raised(e) == [t |-> e, f |-> EmptyDict.f]

TagReply(a) == Obj(JStr(a), JStr("r"), JAbsent, JAbsent, JAbsent)
TradeReply(ta, sy, q) == Obj(JAbsent, JStr("r"), ta, sy, q)

\* replies of every class THINK tells apart
ThinkOutcomes ==
    { Raises,
      Text("empty", JList),
      Text("bare", JList),
      Text("bare", TagReply("think")),
      Text("doubled", TagReply("Think")),
      Text("wrapped", TagReply("observe")),
      Text("bare", Obj(JNum(1), JStr("r"), JAbsent, JAbsent, JAbsent)),
      Text("bare", TradeReply(JStr("buy"), JStr("AAPL"), JNum(1))) }

\* replies of every class DECIDE tells apart
DecideOutcomes ==
    { Raises,
      Text("garbage", JList),
      Text("bare", JList),
      Text("bare", TagReply("think")),
      Text("bare", TradeReply(JStr("BUY"), JStr("aapl"), JStr("1"))),
      Text("bare", TradeReply(JStr("sell"), JStr("AAPL"), JNum(1))),
      Text("bare", TradeReply(JStr("hold"), JStr("AAPL"), JNum(1))),
      Text("bare", TradeReply(JStr("buy"), JStr("MSFT"), JNum(1))),
      Text("bare", TradeReply(JStr("buy"), JStr("AAPL"), JStr("abc"))),
      Text("bare", TradeReply(JStr("buy"), JStr("AAPL"), JNull)),
      Text("bare", TradeReply(JNum(1), JStr("AAPL"), JNum(1))),
      Text("bare", TradeReply(JStr("buy"), JNum(1), JNum(1))) }
    \cup { Text("bare", TradeReply(JStr("buy"), JStr("AAPL"), JNum(q))) :
             q \in (-1)..MaxQty }

ErrorReasoning == "LLM error"
EmptyReasoning == "Empty LLM response"
UnparsedReasoning == "Could not parse LLM response"

(***************************************************************************)
(* _parse_llm_response and _invoke_llm (agent_graph.py).                   *)
(***************************************************************************)
\* _clean_json_text: strip, and "{{" -> "{", "}}" -> "}"
clean_json_text(text) ==
    IF text.form = "doubled" THEN [text EXCEPT !.form = "bare"] ELSE text

parse_llm_response(response) ==
    IF response.form \in {"empty", "blank"}
    THEN Obj(JStr("done"), JStr(EmptyReasoning), JAbsent, JAbsent, JAbsent)
    ELSE LET cleaned == clean_json_text(response)
         IN  IF cleaned.form = "deep"
             THEN Raised("RecursionError")         \* json.loads(cleaned) raises
             ELSE IF cleaned.form = "bare"
             THEN cleaned.val                      \* json.loads(cleaned)
             ELSE IF cleaned.form = "wrapped" /\ cleaned.val.t = "obj"
             THEN cleaned.val                      \* json.loads(json_match.group(0))
             ELSE Obj(JStr("done"), JStr(UnparsedReasoning), JStr("done"),
                      JStr(""), JNum(0))

\* mutant: a failed call asks for another THINK step
invoke_llm_error_thinks(outcome) ==
    IF outcome.raises \/ parse_llm_response(outcome).t = "RecursionError"
    THEN Obj(JStr("think"), JStr(ErrorReasoning), JAbsent, JAbsent, JAbsent)
    ELSE parse_llm_response(outcome)

\* _invoke_llm: the except branch takes what the call or the parser raises
invoke_llm(outcome) ==
    IF outcome.raises \/ parse_llm_response(outcome).t = "RecursionError"
    THEN Obj(JStr("done"), JStr(ErrorReasoning), JAbsent, JAbsent, JAbsent)
    ELSE parse_llm_response(outcome)

(***************************************************************************)
(* decide_action: the Action, or the exception a field of the wrong type   *)
(* raises.                                                                 *)
(***************************************************************************)
NumericStrings == {"1"}
StrToNum(s) == IF s = "1" THEN 1 ELSE 0

\* float(x)
Float(x) ==
    CASE x.t = "num" -> [ret |-> "ok", v |-> x.n]
      [] x.t = "str" -> IF x.s \in NumericStrings
                        THEN [ret |-> "ok", v |-> StrToNum(x.s)]
                        ELSE [ret |-> "ValueError", v |-> 0]
      [] OTHER       -> [ret |-> "TypeError", v |-> 0]

MkAction(type, symbol, quantity, reasoning) ==
    [type |-> type, symbol |-> symbol, quantity |-> quantity, reasoning |-> reasoning]

EmptyAction == MkAction("", "", 0, "")

\* mutant: the trade_action is kept as the model spelled it out
decide_action_keeps_type(llm_response) ==
    IF llm_response.t # "obj"
    THEN [ret |-> "AttributeError", action |-> EmptyAction]
    ELSE LET ta == Get(llm_response, "trade_action", JStr("done"))
             sy == Get(llm_response, "symbol", JStr(""))
             q == Float(Get(llm_response, "quantity", JNum(0)))
             reasoning == Get(llm_response, "reasoning", JStr("No decision made"))
         IN  IF ta.t # "str" \/ sy.t # "str"
             THEN [ret |-> "AttributeError", action |-> EmptyAction]
             ELSE IF q.ret # "ok"
             THEN [ret |-> q.ret, action |-> EmptyAction]
             ELSE [ret |-> "ok",
                   action |-> MkAction(Lower(ta.s), Upper(sy.s), q.v, reasoning.s)]

\* mutant: a response without trade_action is taken as a buy
decide_action_default_buy(llm_response) ==
    IF llm_response.t # "obj"
    THEN [ret |-> "AttributeError", action |-> EmptyAction]
    ELSE LET ta == Get(llm_response, "trade_action", JStr("buy"))
             sy == Get(llm_response, "symbol", JStr(""))
             q == Float(Get(llm_response, "quantity", JNum(0)))
             reasoning == Get(llm_response, "reasoning", JStr("No decision made"))
         IN  IF ta.t # "str" \/ sy.t # "str"
             THEN [ret |-> "AttributeError", action |-> EmptyAction]
             ELSE IF q.ret # "ok"
             THEN [ret |-> q.ret, action |-> EmptyAction]
             ELSE [ret |-> "ok",
                   action |-> MkAction(Lower(ta.s), Upper(sy.s), q.v, reasoning.s)]

decide_action(llm_response) ==
    IF llm_response.t # "obj"
    THEN [ret |-> "AttributeError", action |-> EmptyAction]
    ELSE LET ta == Get(llm_response, "trade_action", JStr("done"))
             sy == Get(llm_response, "symbol", JStr(""))
             q == Float(Get(llm_response, "quantity", JNum(0)))
             reasoning == Get(llm_response, "reasoning", JStr("No decision made"))
         IN  IF ta.t # "str" \/ sy.t # "str"
             THEN [ret |-> "AttributeError", action |-> EmptyAction]
             ELSE IF q.ret # "ok"
             THEN [ret |-> q.ret, action |-> EmptyAction]
             ELSE LET trade_action == IF Lower(ta.s) \notin {"buy", "sell", "done"}
                                      THEN "done" ELSE Lower(ta.s)
                  IN  [ret |-> "ok",
                       action |-> MkAction(trade_action, Upper(sy.s), q.v, reasoning.s)]

(***************************************************************************)
(* _route_from_think                                                       *)
(***************************************************************************)
\* mutant: a request for more observations is taken as a decision
route_from_think_no_observe(traj, response) ==
    IF Len(traj) >= max_think_steps
    THEN "decide"
    ELSE LET action == Lower(Get(response, "action", JStr("done")).s)
         IN  IF action = "think" THEN "think"
             ELSE "decide"

\* mutant: the cap compared with > instead of >=
route_from_think_late(traj, response) ==
    IF Len(traj) > max_think_steps
    THEN "decide"
    ELSE LET action == Lower(Get(response, "action", JStr("done")).s)
         IN  IF action = "observe" THEN "observe"
             ELSE IF action = "think" THEN "think"
             ELSE "decide"

route_from_think(traj, response) ==
    IF Len(traj) >= max_think_steps
    THEN "decide"
    ELSE LET action == Lower(Get(response, "action", JStr("done")).s)
         IN  IF action = "observe" THEN "observe"
             ELSE IF action = "think" THEN "think"
             ELSE "decide"

(***************************************************************************)
(* The caller's session and the collaborators' answers.                    *)
(***************************************************************************)
CandidateSymbols == {"AAPL"}

StaleStep == [step |-> 1, action |-> "think", reasoning |-> "r", timestamp |-> 0]

\* a fresh session (demo_agent.py) and one resumed with a history
InitialSessions ==
    { [day |-> 1, actions |-> <<>>, trajectory |-> <<>>, cash |-> MaxCash],
      [day |-> 3, actions |-> <<MkAction("done", "", 0, "r")>>,
       trajectory |-> <<StaleStep>>, cash |-> 0] }

\* fetch_price_data: per ticker a price, or None when the fetch failed
PriceData == [CandidateSymbols -> {None} \cup {Some(p) : p \in 1..MaxPrice}]

Init ==
    /\ pc = "init"
    /\ exc = ""
    /\ max_think_steps \in 0..MaxThinkSteps
    /\ max_episodes = 0
    /\ episode = 0
    /\ \E s \in InitialSessions :
          /\ initial_day = s.day
          /\ day = s.day
          /\ initial_actions = s.actions
          /\ actions = s.actions
          /\ trajectory = s.trajectory
          /\ cash = s.cash
    /\ prices = [s \in {} |-> 0]
    /\ current_llm_response = EmptyDict
    /\ final_action = EmptyAction
    /\ llm_raised = FALSE
    /\ llm_out = NoOutcome
    /\ parsed = NotParsed
    /\ positions = EmptyPositions
    /\ last_call = NoCall
    /\ prev_call = NoCall
    /\ ncalls = 0

(***************************************************************************)
(* run(): the set-up lines and the for loop over episodes.                 *)
(***************************************************************************)
RunStart ==
    /\ pc = "init"
    /\ \E n \in 0..MaxEpisodes : max_episodes' = n
    /\ trajectory' = <<>>
    /\ current_llm_response' = EmptyDict
    /\ final_action' = EmptyAction
    /\ episode' = 0
    /\ pc' = "loop"
    /\ UNCHANGED <<exc, max_think_steps, initial_day, initial_actions, day, actions,
                   prices, llm_raised, llm_out, parsed, cash, positions, last_call,
                   prev_call, ncalls>>

\* mutant: the loop runs one episode too many
range_has_next_inclusive(done, n) == done <= n

\* for episode in range(max_episodes): another episode is due
range_has_next(done, n) == done < n

RunLoop ==
    /\ pc = "loop"
    /\ IF range_has_next(episode, max_episodes)
       THEN episode' = episode + 1 /\ pc' = "observe"
       ELSE episode' = episode /\ pc' = "returned"
    /\ UNCHANGED <<exc, max_think_steps, max_episodes, initial_day, initial_actions,
                   day, trajectory, actions, prices, current_llm_response,
                   final_action, llm_raised, llm_out, parsed, cash, positions,
                   last_call, prev_call, ncalls>>

(***************************************************************************)
(* The four nodes and the conditional edge of the compiled graph.          *)
(***************************************************************************)
Observe ==
    /\ pc = "observe"
    /\ \E price_data \in PriceData :
          LET known == {t \in DOMAIN price_data : price_data[t].some}
              ps == [t \in known |-> price_data[t].v]
          IN  /\ prices' = ps
              /\ positions' = update_prices(positions, [t \in known |-> Some(ps[t])])
    /\ pc' = "think"
    /\ UNCHANGED <<exc, max_think_steps, max_episodes, episode, initial_day,
                   initial_actions, day, trajectory, actions, current_llm_response,
                   final_action, llm_raised, llm_out, parsed, cash, last_call,
                   prev_call, ncalls>>

ThinkStep(traj, response, d) ==
    Append(traj, [step |-> Len(traj) + 1,
                  action |-> Lower(Get(response, "action", JStr("done")).s),
                  reasoning |-> Get(response, "reasoning", JStr("")).s,
                  timestamp |-> d])

Think ==
    /\ pc = "think"
    /\ \E outcome \in ThinkOutcomes :
          LET response == invoke_llm(outcome)
          IN  /\ llm_raised' = (outcome.raises
                                \/ parse_llm_response(outcome).t = "RecursionError")
              /\ llm_out' = outcome
              /\ parsed' = IF outcome.raises THEN NotParsed
                                             ELSE parse_llm_response(outcome)
              /\ IF response.t # "obj" \/ Get(response, "action", JStr("done")).t # "str"
                 THEN \* response.get / .lower() raises
                      /\ exc' = "AttributeError"
                      /\ pc' = "raised"
                      /\ UNCHANGED <<trajectory, current_llm_response>>
                 ELSE /\ trajectory' = ThinkStep(trajectory, response, day)
                      /\ current_llm_response' = response
                      /\ pc' = "route"
                      /\ exc' = exc
    /\ UNCHANGED <<max_think_steps, max_episodes, episode, initial_day,
                   initial_actions, day, actions, prices, final_action, cash,
                   positions, last_call, prev_call, ncalls>>

Route ==
    /\ pc = "route"
    /\ pc' = route_from_think(trajectory, current_llm_response)
    /\ UNCHANGED <<agent_vars, cash, positions, last_call, prev_call, ncalls>>

Decide ==
    /\ pc = "decide"
    /\ \E outcome \in DecideOutcomes :
          LET d == decide_action(invoke_llm(outcome))
          IN  /\ llm_raised' = (outcome.raises
                                \/ parse_llm_response(outcome).t = "RecursionError")
              /\ llm_out' = outcome
              /\ parsed' = IF outcome.raises THEN NotParsed
                                             ELSE parse_llm_response(outcome)
              /\ IF d.ret # "ok"
                 THEN /\ exc' = d.ret
                      /\ pc' = "raised"
                      /\ final_action' = final_action
                 ELSE /\ final_action' = d.action
                      /\ pc' = "act"
                      /\ exc' = exc
    /\ UNCHANGED <<max_think_steps, max_episodes, episode, initial_day,
                   initial_actions, day, trajectory, actions, prices,
                   current_llm_response, cash, positions, last_call, prev_call, ncalls>>

\* state["prices"].get(symbol, 0.0)
PriceOf(ps, symbol) == IF symbol \in DOMAIN ps THEN ps[symbol] ELSE 0

\* mutant: a sell passes the quantity of the Action on
ActCall_sells_quantity(action, ps, c, held) ==
    IF action.type = "buy"
    THEN LET p == PriceOf(ps, action.symbol)
             r == buy(c, held, action.symbol, action.quantity, p)
         IN  [ret |-> r.ret, cash |-> r.cash, positions |-> r.positions]
    ELSE IF action.type = "sell"
    THEN LET p == PriceOf(ps, action.symbol)
             r == sell(c, held, action.symbol, Some(action.quantity), p)
         IN  [ret |-> r.ret, cash |-> r.cash, positions |-> r.positions]
    ELSE [ret |-> "None", cash |-> c, positions |-> held]

\* the Portfolio call ACT makes for an Action, and its result
ActCall(action, ps, c, held) ==
    IF action.type = "buy"
    THEN LET p == PriceOf(ps, action.symbol)
             r == buy(c, held, action.symbol, action.quantity, p)
         IN  [ret |-> r.ret, cash |-> r.cash, positions |-> r.positions]
    ELSE IF action.type = "sell"
    THEN LET p == PriceOf(ps, action.symbol)
             r == sell(c, held, action.symbol, None, p)
         IN  [ret |-> r.ret, cash |-> r.cash, positions |-> r.positions]
    ELSE [ret |-> "None", cash |-> c, positions |-> held]

\* mutant: ACT leaves the trajectory to the next episode
Act_keeps_trajectory ==
    /\ pc = "act"
    /\ LET r == ActCall(final_action, prices, cash, positions)
       IN  /\ cash' = r.cash
           /\ positions' = r.positions
           /\ IF r.ret \notin {"True", "False", "None"}
              THEN /\ exc' = r.ret
                   /\ pc' = "raised"
                   /\ UNCHANGED <<actions, day, trajectory>>
              ELSE /\ actions' = Append(actions, final_action)
                   /\ day' = day + 1
                   /\ trajectory' = trajectory
                   /\ pc' = "loop"
                   /\ exc' = exc
    /\ UNCHANGED <<max_think_steps, max_episodes, episode, initial_day,
                   initial_actions, prices, current_llm_response, final_action,
                   llm_raised, llm_out, parsed, last_call, prev_call, ncalls>>

Act ==
    /\ pc = "act"
    /\ LET r == ActCall(final_action, prices, cash, positions)
       IN  /\ cash' = r.cash
           /\ positions' = r.positions
           /\ IF r.ret \notin {"True", "False", "None"}
              THEN /\ exc' = r.ret
                   /\ pc' = "raised"
                   /\ UNCHANGED <<actions, day, trajectory>>
              ELSE /\ actions' = Append(actions, final_action)
                   /\ day' = day + 1
                   /\ trajectory' = <<>>
                   /\ pc' = "loop"
                   /\ exc' = exc
    /\ UNCHANGED <<max_think_steps, max_episodes, episode, initial_day,
                   initial_actions, prices, current_llm_response, final_action,
                   llm_raised, llm_out, parsed, last_call, prev_call, ncalls>>

Next == RunStart \/ RunLoop \/ Observe \/ Think \/ Route \/ Decide \/ Act

Spec == Init /\ [][Next]_vars

\* the run is sequential: a step that can be taken is taken
FairSpec == Spec /\ WF_vars(Next)

(***************************************************************************)
(* The Portfolio driven directly, as demo.py does: any caller, any         *)
(* arguments.                                                              *)
(***************************************************************************)
Spellings == {"AAPL", "aapl", "MSFT"}
Quantities == (-1)..MaxQty
CallPrices == 0..MaxPrice

\* Portfolio(positions, initial_cash): no position, or one held position
InitialPositions ==
    { EmptyPositions, add_position(EmptyPositions, "AAPL", 1, 1) }

\* update_prices arguments: a symbol may be missing, None or priced
Snapshots ==
    { [s \in {} |-> None] }
    \cup [{"AAPL"} -> {None} \cup {Some(p) : p \in 1..MaxPrice}]

PInit ==
    /\ pc = "direct"
    /\ exc = ""
    /\ max_think_steps = 0
    /\ max_episodes = 0
    /\ episode = 0
    /\ initial_day = 1
    /\ day = 1
    /\ initial_actions = <<>>
    /\ actions = <<>>
    /\ trajectory = <<>>
    /\ prices = [s \in {} |-> 0]
    /\ current_llm_response = EmptyDict
    /\ final_action = EmptyAction
    /\ llm_raised = FALSE
    /\ llm_out = NoOutcome
    /\ parsed = NotParsed
    /\ cash \in {0, MaxCash}
    /\ positions \in InitialPositions
    /\ last_call = NoCall
    /\ prev_call = NoCall
    /\ ncalls = 0

\* a call returns, or its exception ends the caller
Returned(ret) ==
    IF ret \in {"True", "False", "None"}
    THEN pc' = pc /\ exc' = exc
    ELSE pc' = "raised" /\ exc' = ret

PBuy ==
    /\ pc = "direct"
    /\ ncalls < MaxCalls
    /\ \E symbol \in Spellings, quantity \in Quantities, price \in CallPrices :
          LET r == buy(cash, positions, symbol, quantity, price)
          IN  /\ cash' = r.cash
              /\ positions' = r.positions
              /\ last_call' = Call("buy", symbol, Some(quantity), price, r.ret,
                                    cash, positions)
              /\ Returned(r.ret)
    /\ prev_call' = last_call
    /\ ncalls' = ncalls + 1
    /\ UNCHANGED <<max_think_steps, max_episodes, episode, initial_day,
                   initial_actions, day, trajectory, actions, prices,
                   current_llm_response, final_action, llm_raised, llm_out, parsed>>

PSell ==
    /\ pc = "direct"
    /\ ncalls < MaxCalls
    /\ \E symbol \in Spellings, quantity \in {None} \cup {Some(q) : q \in Quantities},
          price \in CallPrices :
          LET r == sell(cash, positions, symbol, quantity, price)
          IN  /\ cash' = r.cash
              /\ positions' = r.positions
              /\ last_call' = Call("sell", symbol, quantity, price, r.ret,
                                    cash, positions)
              /\ Returned(r.ret)
    /\ prev_call' = last_call
    /\ ncalls' = ncalls + 1
    /\ UNCHANGED <<max_think_steps, max_episodes, episode, initial_day,
                   initial_actions, day, trajectory, actions, prices,
                   current_llm_response, final_action, llm_raised, llm_out, parsed>>

PUpdatePrices ==
    /\ pc = "direct"
    /\ ncalls < MaxCalls
    /\ \E snapshot \in Snapshots :
          /\ positions' = update_prices(positions, snapshot)
          /\ last_call' = [Call("update_prices", "", None, 0, "None", cash, positions)
                              EXCEPT !.snapshot = snapshot]
    /\ prev_call' = last_call
    /\ ncalls' = ncalls + 1
    /\ UNCHANGED <<pc, agent_vars, cash>>

PNext == PBuy \/ PSell \/ PUpdatePrices

PSpec == PInit /\ [][PNext]_vars

(***************************************************************************)
(* _parse_llm_response applied to a text, whatever the session.            *)
(***************************************************************************)
\* the JSON values a text may carry: objects with or without each field the
\* agent reads, and a value that is no object
JsonValues ==
    { Obj(a, r, t[1], t[2], t[3]) :
        a \in {JAbsent, JNum(1)} \cup
              {JStr(x) : x \in {"think", "Think", "observe", "decide", "done"}},
        r \in {JAbsent, JStr("r")},
        t \in { <<JAbsent, JAbsent, JAbsent>>,
                <<JStr("buy"), JStr("AAPL"), JNum(1)>> } }
    \cup {JList}

Texts ==
    { Text(form, JList) : form \in {"empty", "blank", "garbage", "deep"} }
    \cup { Text(form, v) : form \in {"bare", "doubled", "wrapped"}, v \in JsonValues }

ParserInit ==
    /\ pc = "parser"
    /\ exc = ""
    /\ max_think_steps = 0
    /\ max_episodes = 0
    /\ episode = 0
    /\ \E s \in InitialSessions :
          /\ initial_day = s.day
          /\ day = s.day
          /\ initial_actions = s.actions
          /\ actions = s.actions
          /\ trajectory = s.trajectory
          /\ cash = s.cash
    /\ prices = [s \in {} |-> 0]
    /\ current_llm_response = EmptyDict
    /\ final_action = EmptyAction
    /\ llm_raised = FALSE
    /\ llm_out \in Texts
    /\ parsed = NotParsed
    /\ positions = EmptyPositions
    /\ last_call = NoCall
    /\ prev_call = NoCall
    /\ ncalls = 0

\* one call of the parser: it returns a value, or an exception leaves it
ParseText ==
    /\ pc = "parser"
    /\ parsed' = parse_llm_response(llm_out)
    /\ IF parsed'.t = "RecursionError"
       THEN pc' = "raised" /\ exc' = parsed'.t
       ELSE pc' = "parsed" /\ exc' = exc
    /\ UNCHANGED <<max_think_steps, max_episodes, episode, initial_day,
                   initial_actions, day, trajectory, actions, prices,
                   current_llm_response, final_action, llm_raised, llm_out,
                   cash, positions, last_call, prev_call, ncalls>>

ParserNext == ParseText

ParserSpec == ParserInit /\ [][ParserNext]_vars

(***************************************************************************)
(* Properties of the agent loop.                                           *)
(***************************************************************************)

\* C1, the routing it rests on: once the trajectory holds max_think_steps
\* steps, the edge after THINK leads to DECIDE whatever the parsed tag is.
C1_CapForcesDecide ==
    [][(pc = "route" /\ Len(trajectory) >= max_think_steps) => pc' = "decide"]_vars

\* C1: for every max_think_steps and every sequence of model responses an
\* episode that starts eventually reaches DECIDE and then ACT, and the cap
\* on the trajectory forces DECIDE.
C1_EpisodeReachesDecideThenAct ==
    /\ (pc = "observe") ~> (pc = "decide")
    /\ (pc = "decide") ~> (pc = "act")
    /\ C1_CapForcesDecide

\* C2 as stated: in every state of a run the trajectory is no longer than
\* max_think_steps, for every configured max_think_steps.
C2_TrajectoryWithinMax ==
    pc # "init" => Len(trajectory) <= max_think_steps

\* C2 amended: in every state of a run the trajectory is no longer than
\* max_think_steps when max_think_steps >= 1, and holds at most the one step
\* every episode takes when max_think_steps < 1.
C2_TrajectoryBound ==
    pc # "init" =>
        Len(trajectory) <= (IF max_think_steps < 1 THEN 1 ELSE max_think_steps)

C2_Witness ==
    /\ pc = "route"
    /\ max_think_steps >= 2
    /\ Len(trajectory) = max_think_steps
    /\ Get(current_llm_response, "action", JStr("done")).s = "think"

\* C3: run performs exactly max_episodes ACT steps: every change of the
\* action history is one ACT appending one Action and advancing the day by
\* one, and when run returns the day is the initial day plus max_episodes,
\* the history is the initial history followed by max_episodes Actions, and
\* the trajectory is empty.
C3_RunPerformsEpisodeCount ==
    [][/\ (actions' # actions \/ day' # day) =>
             /\ pc = "act"
             /\ actions' = Append(actions, final_action)
             /\ day' = day + 1
       /\ pc' = "returned" =>
             /\ day' = initial_day + max_episodes
             /\ Len(actions') = Len(initial_actions) + max_episodes
             /\ SubSeq(actions', 1, Len(initial_actions)) = initial_actions
             /\ trajectory' = <<>>]_vars

C3_Witness ==
    /\ pc = "returned"
    /\ max_episodes >= 2
    /\ initial_actions # <<>>
    /\ Len(actions) = Len(initial_actions) + max_episodes

\* C4: no model output aborts the run: whatever text THINK or DECIDE is
\* given, no exception ends the run.
C4_NoModelOutputAborts ==
    pc # "raised"

\* a THINK step of the current episode recorded a failed model call
FailedThink ==
    \E i \in DOMAIN trajectory :
        trajectory[i].action = "done" /\ trajectory[i].reasoning = ErrorReasoning

\* C5, its first half: a THINK step whose model call fails appends a step
\* with action "done" and the failure as its reasoning.
C5_FailedThinkStep ==
    (pc = "think" /\ llm_raised') =>
        /\ trajectory' = Append(trajectory,
               [step |-> Len(trajectory) + 1, action |-> "done",
                reasoning |-> ErrorReasoning, timestamp |-> day])
        /\ pc' = "route"

\* C5 as stated: when the model call fails during a THINK step, the step
\* appends a "done" entry mentioning the failure, and the ACT of that
\* episode leaves cash and holdings as they were.
C5_ThinkFailureThenNoMutation ==
    [][/\ C5_FailedThinkStep
       /\ (pc = "act" /\ FailedThink) => (cash' = cash /\ positions' = positions)]_vars

\* C5 amended: when the model call fails during a THINK step, the step
\* appends a "done" entry mentioning the failure and routing leads to DECIDE;
\* if DECIDE's own model call fails too, DECIDE yields a "done" Action and
\* ACT follows; and ACT on a "done" Action leaves cash and holdings as they
\* were and ends the episode.
C5_ThinkFailureRecovered ==
    [][/\ C5_FailedThinkStep
       /\ (pc = "route" /\ llm_raised) => pc' = "decide"
       /\ (pc = "decide" /\ FailedThink /\ llm_raised') =>
             (pc' = "act" /\ final_action'.type = "done")
       /\ (pc = "act" /\ FailedThink /\ final_action.type = "done") =>
             (cash' = cash /\ positions' = positions /\ pc' = "loop")]_vars

C5_Witness ==
    /\ pc = "loop"
    /\ Len(actions) > Len(initial_actions)
    /\ Get(current_llm_response, "reasoning", JStr("")).s = ErrorReasoning
    /\ actions[Len(actions)].type = "done"
    /\ positions # EmptyPositions

\* C6: when the model call fails during DECIDE, the Action recorded is the
\* synthetic "done" decision, ACT calls neither buy nor sell and appends it
\* to the history, and the run goes on to its next episode or returns.
C6_DecideFailureIsDone ==
    [][/\ (pc = "decide" /\ llm_raised') =>
             /\ final_action' = MkAction("done", "", 0, ErrorReasoning)
             /\ pc' = "act"
       /\ (pc = "act" /\ llm_raised) =>
             /\ final_action.type = "done"
             /\ cash' = cash /\ positions' = positions
             /\ actions' = Append(actions, final_action)
             /\ pc' = "loop"
       /\ (pc = "loop" /\ llm_raised) =>
             pc' = (IF episode < max_episodes THEN "observe" ELSE "returned")]_vars

C6_Witness ==
    /\ pc = "observe"
    /\ episode >= 2
    /\ llm_raised
    /\ actions[Len(actions)] = MkAction("done", "", 0, ErrorReasoning)

(***************************************************************************)
(* Properties of the Portfolio.                                            *)
(***************************************************************************)

\* C7: whatever buys and sells are made, those of ACT included, cash is
\* never negative.
C7_CashNeverNegative ==
    cash >= 0

\* C8: after a successful sell of a position's full quantity (quantity None,
\* or equal to the quantity held) the symbol is not in the holdings and cash
\* has grown by the quantity held times the price.
C8_FullSellRemovesPosition ==
    (last_call.op = "sell" /\ last_call.ret = "True") =>
        LET key == Upper(last_call.symbol)
            held == last_call.positions_before[key].quantity
        IN  (~last_call.quantity.some \/ last_call.quantity.v = held) =>
                /\ key \notin DOMAIN positions
                /\ cash = last_call.cash_before + held * last_call.price

C8_Witness ==
    /\ last_call.op = "sell"
    /\ last_call.ret = "True"
    /\ last_call.symbol = "aapl"
    /\ last_call.quantity.some
    /\ last_call.quantity.v = last_call.positions_before["AAPL"].quantity
    /\ last_call.quantity.v > 0
    /\ last_call.price > 0

\* a successful buy(X, q, p) immediately followed by sell(X, q, p)
RoundTrip ==
    /\ prev_call.op = "buy"
    /\ prev_call.ret = "True"
    /\ last_call.op = "sell"
    /\ last_call.symbol = prev_call.symbol
    /\ last_call.quantity = prev_call.quantity
    /\ last_call.price = prev_call.price

C10_BuyAveragesIntoPosition ==
    (last_call.op = "buy" /\ last_call.ret = "True") =>
        LET key == Upper(last_call.symbol)
            q == last_call.quantity.v
            cost == q * last_call.price
            before == last_call.positions_before
        IN  /\ cash = last_call.cash_before - cost
            /\ key \in DOMAIN positions
            /\ IF key \in DOMAIN before
               THEN /\ positions[key].quantity = before[key].quantity + q
                    /\ FracEq(positions[key].avg_price,
                              before[key].quantity * before[key].avg_price.n
                                  + cost * before[key].avg_price.d,
                              before[key].avg_price.d * (before[key].quantity + q))
               ELSE /\ positions[key].quantity = q
                    /\ FracEq(positions[key].avg_price, last_call.price, 1)

(***************************************************************************)
(* Failures of the ledger.                                                 *)
(***************************************************************************)
\* C11: a buy whose cost quantity x price exceeds the cash returns False and
\* leaves the cash and every position (symbols, quantities, avg_price,
\* current_price) as they were.
C11_UnfundedBuyFails ==
    (last_call.op = "buy"
       /\ last_call.quantity.v * last_call.price > last_call.cash_before) =>
        /\ last_call.ret = "False"
        /\ cash = last_call.cash_before
        /\ positions = last_call.positions_before

\* an unfunded buy of a symbol already held and priced has been refused
C11_Witness ==
    /\ last_call.op = "buy"
    /\ last_call.quantity.v * last_call.price > last_call.cash_before
    /\ last_call.symbol \in DOMAIN last_call.positions_before
    /\ last_call.positions_before[last_call.symbol].current_price.some
    /\ last_call.ret = "False"

\* C12: sell returns False when the symbol is not held or the requested
\* quantity exceeds the held one, and then cash and positions are unchanged;
\* in every other case it returns True and the cash grows by the sold
\* quantity times the price.
C12_SellOutcome ==
    last_call.op = "sell" =>
        LET key == Upper(last_call.symbol)
            before == last_call.positions_before
            held == key \in DOMAIN before
            requested == last_call.quantity
        IN  IF ~held \/ (requested.some /\ requested.v > before[key].quantity)
            THEN /\ last_call.ret = "False"
                 /\ cash = last_call.cash_before
                 /\ positions = before
            ELSE LET sold == IF requested.some THEN requested.v
                                              ELSE before[key].quantity
                 IN  /\ last_call.ret = "True"
                     /\ cash = last_call.cash_before + sold * last_call.price

\* a sale of all that is held has been paid, after a sale that was refused
C12_Witness ==
    /\ last_call.op = "sell"
    /\ last_call.ret = "True"
    /\ last_call.quantity.some
    /\ Upper(last_call.symbol) \in DOMAIN last_call.positions_before
    /\ last_call.quantity.v =
          last_call.positions_before[Upper(last_call.symbol)].quantity
    /\ last_call.price > 0
    /\ cash > last_call.cash_before
    /\ prev_call.op = "sell"
    /\ prev_call.ret = "False"

\* C13: buy and sell report every failure through their boolean result and
\* never raise, from every ledger that buy/sell calls reach and for every
\* quantity and price that is not negative, quantity 0 included.  (Stated on
\* histories of at most two calls, both of them with such arguments.)
C13_LedgerNeverRaises ==
    (/\ ncalls <= 2
     /\ last_call.op \in {"buy", "sell"}
     /\ prev_call.op \in {"none", "buy", "sell"}
     /\ \A call \in {prev_call, last_call} :
            call.quantity.v >= 0 /\ call.price >= 0) =>
        last_call.ret \in {"True", "False"}

\* C19: every entry of the holdings has a quantity above 0: no position of
\* quantity 0 or of a negative quantity is present after buy/sell calls.
C19_HoldingsArePositive ==
    \A s \in DOMAIN positions : positions[s].quantity > 0

(***************************************************************************)
(* ACT and the Actions it records.                                         *)
(***************************************************************************)
\* C14: when ACT attempts a buy the cash cannot pay, or a sell of a symbol
\* that is not held, the cash and the holdings stay as they were, and the
\* Action is still appended to the history, the day advances by 1 and the
\* trajectory is cleared, as for a successful action.
C14_RejectedActionIsRecorded ==
    [][(/\ pc = "act"
        /\ \/ /\ final_action.type = "buy"
              /\ final_action.quantity * PriceOf(prices, final_action.symbol) > cash
           \/ /\ final_action.type = "sell"
              /\ final_action.symbol \notin DOMAIN positions) =>
           /\ cash' = cash
           /\ positions' = positions
           /\ actions' = Append(actions, final_action)
           /\ day' = day + 1
           /\ trajectory' = <<>>
           /\ pc' = "loop"]_vars

\* ACT has recorded a buy that the portfolio refused
C14_Witness ==
    /\ pc = "loop"
    /\ Len(actions) > Len(initial_actions)
    /\ actions[Len(actions)].type = "buy"
    /\ actions[Len(actions)].quantity > 0
    /\ actions[Len(actions)].symbol \in DOMAIN prices
    /\ actions[Len(actions)].symbol \notin DOMAIN positions
    /\ day = initial_day + episode
    /\ trajectory = <<>>

\* C15: every Action DECIDE produces, and so every entry of the history,
\* has type buy, sell or done; a response whose trade_action is missing or
\* is, in lower case, neither buy nor sell gives type "done".
C15_ActionTypeNormalised ==
    [][/\ \A i \in DOMAIN actions' : actions'[i].type \in {"buy", "sell", "done"}
       /\ (pc = "decide" /\ pc' = "act") =>
             LET trade_action == invoke_llm(llm_out').f.trade_action
             IN  /\ final_action'.type \in {"buy", "sell", "done"}
                 /\ (trade_action.t = "absent"
                       \/ Lower(trade_action.s) \notin {"buy", "sell"}) =>
                         final_action'.type = "done"
                 /\ (trade_action.t = "str"
                       /\ Lower(trade_action.s) \in {"buy", "sell"}) =>
                         final_action'.type = Lower(trade_action.s)]_vars

\* the history holds the "done" that an unknown trade_action became, and a
\* buy that was spelled in upper case
C15_Witness ==
    /\ pc = "act"
    /\ llm_out.val = TradeReply(JStr("BUY"), JStr("aapl"), JStr("1"))
    /\ final_action.type = "buy"
    /\ Len(actions) > Len(initial_actions)
    /\ actions[Len(actions)].type = "done"
    /\ actions[Len(actions)].reasoning = "r"
    /\ actions[Len(actions)].symbol = "AAPL"

\* C16: every Action of the history whose type is "done" has an empty symbol
\* and quantity 0, whatever response DECIDE received.
C16_DoneActionIsEmpty ==
    \A i \in DOMAIN actions :
        actions[i].type = "done" =>
            actions[i].symbol = "" /\ actions[i].quantity = 0

(***************************************************************************)
(* The response parser.                                                    *)
(***************************************************************************)
\* C17: the parser never raises and, whatever the text, returns a mapping
\* that holds an action (or trade_action) field and a reasoning field.
C17_ParserReturnsWellFormed ==
    pc \in {"parsed", "raised"} =>
        /\ pc = "parsed"
        /\ parsed.t = "obj"
        /\ parsed.f.action.t # "absent" \/ parsed.f.trade_action.t # "absent"
        /\ parsed.f.reasoning.t # "absent"

\* C18: an empty or blank text, and a text from which no JSON object can be
\* parsed, give the default record with action "done" (for the second also
\* symbol "" and quantity 0), without raising and with the session as it
\* was; the text {"action":"decide"} gives a record whose action is "decide".
C18_ParserOutcomeByClass ==
    /\ day = initial_day
    /\ actions = initial_actions
    /\ positions = EmptyPositions
    /\ current_llm_response = EmptyDict
    /\ pc \in {"parsed", "raised"} =>
          /\ llm_out.form \in {"empty", "blank"} =>
                /\ pc = "parsed"
                /\ parsed.t = "obj"
                /\ parsed.f.action = JStr("done")
          /\ (llm_out.form \in {"garbage", "deep"}
                 \/ (llm_out.form \in {"bare", "doubled", "wrapped"}
                       /\ llm_out.val.t # "obj")) =>
                /\ pc = "parsed"
                /\ parsed.t = "obj"
                /\ parsed.f.action = JStr("done")
                /\ parsed.f.symbol = JStr("")
                /\ parsed.f.quantity = JNum(0)
          /\ llm_out = Text("bare", Obj(JStr("decide"), JAbsent, JAbsent, JAbsent,
                                        JAbsent)) =>
                /\ pc = "parsed"
                /\ parsed.t = "obj"
                /\ parsed.f.action = JStr("decide")

(***************************************************************************)
(* The order of the nodes within an episode.                               *)
(***************************************************************************)
\* C21 as stated: below the cap the tag "observe" routes to OBSERVE, "think"
\* to THINK and every other tag to DECIDE, so the THINK steps of an episode
\* number the minimum of max_think_steps and the position of the first
\* response whose tag is neither "think" nor "observe".
C21_ThinkStepsAreMinimum ==
    [][/\ (pc = "route" /\ Len(trajectory) < max_think_steps) =>
             LET tag == trajectory[Len(trajectory)].action
             IN  pc' = IF tag = "observe" THEN "observe"
                       ELSE IF tag = "think" THEN "think" ELSE "decide"
       /\ pc' = "decide" =>
             LET stops == {i \in DOMAIN trajectory' :
                             trajectory'[i].action \notin {"think", "observe"}}
                 first == CHOOSE i \in stops : \A j \in stops : i <= j
             IN  Len(trajectory') =
                     IF stops = {} \/ max_think_steps < first
                     THEN max_think_steps ELSE first]_vars

\* C21 amended: the routing is as stated, and the THINK steps of an episode
\* number the minimum of the cap and the position of the first response
\* whose tag is neither "think" nor "observe", where the cap is
\* max_think_steps, or 1 when max_think_steps < 1.
C21_ThinkStepsAreCappedMinimum ==
    [][/\ (pc = "route" /\ Len(trajectory) < max_think_steps) =>
             LET tag == trajectory[Len(trajectory)].action
             IN  pc' = IF tag = "observe" THEN "observe"
                       ELSE IF tag = "think" THEN "think" ELSE "decide"
       /\ pc' = "decide" =>
             LET cap == IF max_think_steps < 1 THEN 1 ELSE max_think_steps
                 stops == {i \in DOMAIN trajectory' :
                             trajectory'[i].action \notin {"think", "observe"}}
                 first == CHOOSE i \in stops : \A j \in stops : i <= j
             IN  Len(trajectory') =
                     IF stops = {} \/ cap < first THEN cap ELSE first]_vars

\* DECIDE is reached at the cap, after a step that asked for observations
\* and one that asked to think on
C21_Witness ==
    /\ pc = "decide"
    /\ Len(trajectory) >= 2
    /\ max_think_steps = Len(trajectory)
    /\ trajectory[1].action = "observe"
    /\ trajectory[Len(trajectory)].action = "think"

\* the precedences of C22: an episode starts in OBSERVE, OBSERVE hands over
\* to THINK, DECIDE is entered from THINK's route with a step taken, ACT is
\* entered from DECIDE with the Action that DECIDE has just produced, and
\* ACT leaves the graph
C22_Precedences ==
    [][/\ pc = "loop" => pc' \in {"observe", "returned"}
       /\ pc = "observe" => pc' = "think"
       /\ pc' = "decide" => pc = "route" /\ Len(trajectory) >= 1
       /\ pc' = "act" =>
             /\ pc = "decide"
             /\ final_action' = decide_action(invoke_llm(llm_out')).action
       /\ pc = "act" => pc' \in {"loop", "raised"}]_vars

\* C22: within every episode OBSERVE comes first and is followed by THINK,
\* DECIDE is always followed by ACT, and ACT ends the episode; so every ACT
\* comes right after a DECIDE of its episode, every DECIDE after at least
\* one THINK, and ACT never uses the final action of an earlier episode.
C22_NodeOrder ==
    /\ C22_Precedences
    /\ [][pc = "decide" => pc' = "act"]_vars

\* C23: the trajectory is emptied once per episode, by ACT: it is empty when
\* an episode enters its first OBSERVE, an OBSERVE that THINK routed back to
\* leaves it as it is, and THINK and DECIDE see no step of an earlier
\* episode (every step they see was taken on the current day).
C23_TrajectoryResetByAct ==
    [][/\ (pc = "loop" /\ pc' = "observe") => trajectory = <<>>
       /\ pc = "observe" => trajectory' = trajectory
       /\ (pc = "act" /\ pc' = "loop") => trajectory' = <<>>
       /\ (trajectory # <<>> /\ trajectory' = <<>>) => pc \in {"init", "act"}
       /\ (trajectory' # trajectory /\ trajectory' # <<>>) =>
             /\ pc = "think"
             /\ Len(trajectory') = Len(trajectory) + 1
             /\ SubSeq(trajectory', 1, Len(trajectory)) = trajectory
       /\ pc' \in {"think", "route", "decide", "act"} =>
             \A i \in DOMAIN trajectory' : trajectory'[i].timestamp = day']_vars

\* in a later episode of a resumed session THINK has been routed back to
\* OBSERVE with the one step of this episode in the trajectory
C23_Witness ==
    /\ pc = "observe"
    /\ episode >= 2
    /\ initial_actions # <<>>
    /\ Len(trajectory) = 1
    /\ trajectory[1].action = "observe"
    /\ trajectory[1].timestamp = day
    /\ day = initial_day + episode - 1

(***************************************************************************)
(* ACT and the portfolio.                                                  *)
(***************************************************************************)
\* C24: a buy or sell that ACT performs for a symbol uses the price the
\* symbol had in the latest snapshot that priced it.  (Stated for a held
\* symbol, whose current_price is that price: every OBSERVE hands its
\* snapshot to update_prices.  The price used is read off the cash.)
C24_ActUsesLatestObservedPrice ==
    [][(/\ pc = "act"
        /\ final_action.symbol \in DOMAIN positions
        /\ positions[final_action.symbol].current_price.some) =>
          LET pos == positions[final_action.symbol]
              latest == pos.current_price.v
          IN  /\ final_action.type = "sell" =>
                    cash' = cash + pos.quantity * latest
              /\ (final_action.type = "buy" /\ positions' # positions) =>
                    cash' = cash - final_action.quantity * latest]_vars

\* C25: cash and the holdings' symbols, quantities and avg_price change in
\* the ACT step only; OBSERVE changes nothing but current_price, THINK and
\* DECIDE change nothing of the portfolio, and an ACT whose Action is "done"
\* leaves the whole portfolio as it was.
C25_PortfolioFrame ==
    [][/\ pc # "act" =>
             /\ cash' = cash
             /\ DOMAIN positions' = DOMAIN positions
             /\ \A s \in DOMAIN positions :
                    /\ positions'[s].symbol = positions[s].symbol
                    /\ positions'[s].quantity = positions[s].quantity
                    /\ positions'[s].avg_price = positions[s].avg_price
       /\ pc \in {"think", "route", "decide"} => positions' = positions
       /\ (pc = "act" /\ final_action.type = "done") =>
             cash' = cash /\ positions' = positions]_vars

\* a "done" Action has been executed on a position that an OBSERVE priced
C25_Witness ==
    /\ pc = "loop"
    /\ Len(actions) > Len(initial_actions)
    /\ actions[Len(actions)].type = "done"
    /\ "AAPL" \in DOMAIN positions
    /\ positions["AAPL"].current_price.some
    /\ positions["AAPL"].quantity > 0

\* C26: update_prices sets current_price for exactly the held symbols that
\* the snapshot maps to a value that is not None; a held symbol the snapshot
\* lacks or maps to None keeps its current_price; cash, quantities,
\* avg_price and the set of held symbols are unchanged.
C26_UpdatePricesFrame ==
    last_call.op = "update_prices" =>
        LET before == last_call.positions_before
            snapshot == last_call.snapshot
        IN  /\ cash = last_call.cash_before
            /\ DOMAIN positions = DOMAIN before
            /\ \A s \in DOMAIN before :
                   /\ positions[s].symbol = before[s].symbol
                   /\ positions[s].quantity = before[s].quantity
                   /\ positions[s].avg_price = before[s].avg_price
                   /\ positions[s].current_price =
                         IF s \in DOMAIN snapshot /\ snapshot[s].some
                         THEN Some(snapshot[s].v)
                         ELSE before[s].current_price

\* a position priced by one snapshot has kept its price under a later
\* snapshot that maps its symbol to None
C26_Witness ==
    /\ last_call.op = "update_prices"
    /\ prev_call.op = "update_prices"
    /\ "AAPL" \in DOMAIN positions
    /\ "AAPL" \in DOMAIN prev_call.snapshot
    /\ prev_call.snapshot["AAPL"].some
    /\ "AAPL" \in DOMAIN last_call.snapshot
    /\ ~last_call.snapshot["AAPL"].some
    /\ positions["AAPL"].current_price = prev_call.snapshot["AAPL"]

\* C27: an ACT whose Action is a sell of a held symbol sells the whole
\* position, whatever quantity the Action carries: the symbol leaves the
\* holdings and the cash grows by the held quantity times the price.
C27_ActSellLiquidates ==
    [][(/\ pc = "act"
        /\ final_action.type = "sell"
        /\ final_action.symbol \in DOMAIN positions) =>
          LET held == positions[final_action.symbol].quantity
          IN  /\ final_action.symbol \notin DOMAIN positions'
              /\ DOMAIN positions' = DOMAIN positions \ {final_action.symbol}
              /\ \A s \in DOMAIN positions' : positions'[s] = positions[s]
              /\ cash' = cash + held * PriceOf(prices, final_action.symbol)
              /\ pc' = "loop"]_vars

\* a sell Action of quantity 1 has sold a position of 2 bought at 1, at a
\* price above 1: the cash is above what the session began with
C27_Witness ==
    /\ pc = "loop"
    /\ Len(actions) >= 2
    /\ actions[Len(actions)].type = "sell"
    /\ actions[Len(actions)].quantity = 1
    /\ actions[Len(actions) - 1].type = "buy"
    /\ actions[Len(actions) - 1].quantity = 2
    /\ actions[Len(actions) - 1].symbol = actions[Len(actions)].symbol
    /\ actions[Len(actions)].symbol \notin DOMAIN positions
    /\ cash > MaxCash

\* C28 as stated: a successful buy that ACT executes at the observed price
\* leaves total_value() unchanged, when the symbol was held with that
\* current_price and when the buy opens a new position.
C28_BuyKeepsTotalValue ==
    [][(/\ pc = "act"
        /\ pc' = "loop"
        /\ final_action.type = "buy"
        /\ final_action.symbol \in DOMAIN prices
        /\ final_action.quantity * prices[final_action.symbol] <= cash
        /\ \/ final_action.symbol \notin DOMAIN positions
           \/ positions[final_action.symbol].current_price =
                 Some(prices[final_action.symbol])) =>
          total_value(cash', positions') = total_value(cash, positions)]_vars

\* C28 amended: such a buy leaves total_value() unchanged when the symbol
\* was held with that current_price; a buy that opens a new position, whose
\* current_price is unset until the next update_prices, lowers
\* total_value() by the cost quantity times price.
C28_BuyKeepsTotalValueWhenHeld ==
    [][(/\ pc = "act"
        /\ pc' = "loop"
        /\ final_action.type = "buy"
        /\ final_action.symbol \in DOMAIN prices
        /\ final_action.quantity * prices[final_action.symbol] <= cash) =>
          LET cost == final_action.quantity * prices[final_action.symbol]
          IN  /\ final_action.symbol \notin DOMAIN positions =>
                    /\ total_value(cash', positions') =
                          total_value(cash, positions) - cost
                    /\ ~positions'[final_action.symbol].current_price.some
              /\ (/\ final_action.symbol \in DOMAIN positions
                  /\ positions[final_action.symbol].current_price =
                        Some(prices[final_action.symbol])) =>
                    total_value(cash', positions') = total_value(cash, positions)]_vars

\* ACT has bought more of a position held at the observed price
C28_Witness ==
    /\ pc = "loop"
    /\ Len(actions) >= 2
    /\ actions[Len(actions)].type = "buy"
    /\ actions[Len(actions)].quantity > 0
    /\ actions[Len(actions) - 1].type = "buy"
    /\ actions[Len(actions) - 1].quantity > 0
    /\ "AAPL" \in DOMAIN positions
    /\ positions["AAPL"].quantity =
          actions[Len(actions)].quantity + actions[Len(actions) - 1].quantity
    /\ "AAPL" \in DOMAIN prices
    /\ positions["AAPL"].current_price = Some(prices["AAPL"])
    /\ total_value(cash, positions) = cash + positions["AAPL"].quantity * prices["AAPL"]

====
